---------------------------- MODULE Spec2Model ----------------------------
(***************************************************************************)
(* Model of transformClassDeclaration (rbxts-transformer-flamework): the   *)
(* class metadata synthesizer, the annotation configuration builder with   *)
(* its inheritance-aware guard omission, and the constructor/field         *)
(* lifecycle rewriter (updateClass).                                       *)
(*                                                                         *)
(* One class declaration is processed per behaviour.  The class (node),    *)
(* its ClassInfo and the answers of the type checker are the inputs; they  *)
(* are chosen in Init and never change.  The transform runs through its    *)
(* phases in source order; a Diagnostics.error call aborts it.             *)
(***************************************************************************)
EXTENDS Integers, Sequences, FiniteSets, TLC

VARIABLES
    node,        \* the class declaration, its ClassInfo and type facts (input)
    pc,          \* position inside transformClassDeclaration
    fields,      \* the local `fields` array: metadata records built so far
    diag,        \* message of the fatal diagnostic raised, "none" if none
    result       \* what the call returned: the class members and the records

vars == <<node, pc, fields, diag, result>>

-----------------------------------------------------------------------------
(* Bounds of the explored inputs.                                          *)

MaxParams == 2
MaxImplements == 2
MaxDecorators == 2
MaxFields == 2
MaxAttributes == 2
MaxStatements == 2

-----------------------------------------------------------------------------
(* Expressions.  Every expression is a tuple whose first element is its    *)
(* syntax kind, so that two expressions of different kinds are unequal.    *)

Str(s) == <<"string", s>>
Bool(b) == <<"boolean", b>>
Arr(elems) == <<"array", elems>>
Obj(props) == <<"object", props>>
Ident(n) == <<"identifier", n>>

IsObject(e) == e[1] = "object"

\* An element of an object literal.  kind: "assignment" (name: value) or
\* "shorthand" (name); nameKind: "identifier", "string" or "computed".
Prop(kind, nameKind, name, init) ==
    [kind |-> kind, nameKind |-> nameKind, name |-> name, initializer |-> init]

\* f.propertyAssignmentDeclaration(name, value)
PropertyAssignment(name, value) == Prop("assignment", "identifier", name, value)

\* x.name && "text" in x.name && x.name.text === n
HasNameText(p, n) == p.nameKind # "computed" /\ p.name = n

\* Sequence helpers
Range(s) == {s[i] : i \in DOMAIN s}

RECURSIVE Flatten(_)
Flatten(ss) == IF ss = <<>> THEN <<>> ELSE Head(ss) \o Flatten(Tail(ss))

Map(s, F(_)) == [i \in DOMAIN s |-> F(s[i])]

\* Array.prototype.findIndex, 1-based; 0 when nothing matches
FindIndex(s, P(_)) ==
    IF \E i \in DOMAIN s : P(s[i])
    THEN CHOOSE i \in DOMAIN s : P(s[i]) /\ \A j \in 1..(i-1) : ~P(s[j])
    ELSE 0

SeqsUpTo(S, n) == UNION {[1..k -> S] : k \in 0..n}

-----------------------------------------------------------------------------
(* Identity registry: state.getUid(declaration).  One fixed string per     *)
(* declaration, distinct declarations get distinct strings.                *)

Declarations ==
    {"Class", "Dep1", "Dep2", "OnStart", "IFoo", "Component", "Service", "Custom", "Other"}

getUid(declaration) ==
    CASE declaration = "Class" -> "game/Class@Class"
      [] declaration = "Dep1" -> "game/Dep1@Dep1"
      [] declaration = "Dep2" -> "game/Dep2@Dep2"
      [] declaration = "OnStart" -> "$:flamework@OnStart"
      [] declaration = "IFoo" -> "game/IFoo@IFoo"
      [] declaration = "Component" -> "$c:components@Component"
      [] declaration = "Service" -> "$:flamework@Service"
      [] declaration = "Custom" -> "game/Custom@Custom"
      [] declaration = "Other" -> "game/Other@Other"

-----------------------------------------------------------------------------
(* Types, as the type checker reports them.  A type is named by a string;  *)
(* two types are the same type object exactly when their names are equal.  *)

Types == {"Instance", "BasePart", "Part", "Model"}

\* typeChecker.isTypeAssignableTo(source, target):
\* Part <: BasePart <: Instance, Model <: Instance
isTypeAssignableTo(source, target) ==
    \/ source = target
    \/ target = "Instance"
    \/ source = "Part" /\ target = "BasePart"

\* An object shape is the ordered list of its <<field name, field type>>.
ShapeNames(shape) == {shape[i][1] : i \in DOMAIN shape}

\* typeChecker.getTypeOfPropertyOfType(shape, name); "undefined" if absent
getTypeOfPropertyOfType(shape, name) ==
    IF \E i \in DOMAIN shape : shape[i][1] = name
    THEN shape[CHOOSE i \in DOMAIN shape : shape[i][1] = name][2]
    ELSE "undefined"

\* buildGuardFromType(state, file, type): the compiled validator of a type
buildGuardFromType(type) == <<"guard", type>>

\* buildGuardsFromType(state, file, shape): one named guard per field
buildGuardsFromType(shape) ==
    [i \in DOMAIN shape |->
        Prop("assignment", "string", shape[i][1], buildGuardFromType(shape[i][2]))]

-----------------------------------------------------------------------------
(* Annotation configuration builder.                                       *)
(* `types` are the checker's facts about the class:                        *)
(*   attributes, instance : [exists, parentIsBase, type]  (the property    *)
(*       found by type.getProperty and whether its parent is BaseComponent)*)
(*   superClass : [exists, attributes : [exists, type],                    *)
(*                 instance : [exists, type]]  (getSuperClasses(...)[0])   *)

\* Mutation of calculateOmittedGuards: compares by assignability, not identity
calculateOmittedGuardsAssignable(types, customAttributes) ==
    LET custom ==
            IF /\ customAttributes # <<>>
               /\ customAttributes[1].kind = "assignment"
               /\ IsObject(customAttributes[1].initializer)
            THEN {p.name : p \in {q \in Range(customAttributes[1].initializer[2]) :
                                     q.nameKind \in {"string", "identifier"}}}
            ELSE {}
        attributes == types.attributes.type
        superAttributes == types.superClass.attributes.type
    IN  IF ~types.attributes.exists \/ ~types.superClass.exists
           \/ ~types.superClass.attributes.exists
        THEN custom
        ELSE custom \cup
             {name \in ShapeNames(superAttributes) :
                /\ getTypeOfPropertyOfType(attributes, name) # "undefined"
                /\ isTypeAssignableTo(getTypeOfPropertyOfType(attributes, name),
                                      getTypeOfPropertyOfType(superAttributes, name))}

calculateOmittedGuards(types, customAttributes) ==
    LET omittedNames ==
            IF /\ customAttributes # <<>>
               /\ customAttributes[1].kind = "assignment"
               /\ IsObject(customAttributes[1].initializer)
            THEN {p.name : p \in {q \in Range(customAttributes[1].initializer[2]) :
                                     q.nameKind \in {"string", "identifier"}}}
            ELSE {}
        attributes == types.attributes.type
        superAttributes == types.superClass.attributes.type
    IN  IF ~types.attributes.exists THEN omittedNames
        ELSE IF ~types.superClass.exists THEN omittedNames
        ELSE IF ~types.superClass.attributes.exists THEN omittedNames
        ELSE omittedNames \cup
             {name \in ShapeNames(superAttributes) :
                LET prop == getTypeOfPropertyOfType(attributes, name)
                    superProp == getTypeOfPropertyOfType(superAttributes, name)
                IN  prop # "undefined" /\ superProp # "undefined" /\ superProp = prop}

\* Returns [defined, properties]: defined = FALSE models `return;`
updateAttributeGuards(types, properties) ==
    IF ~types.attributes.exists \/ ~types.attributes.parentIsBase
    THEN [defined |-> FALSE, properties |-> properties]
    ELSE
    LET attributesType == types.attributes.type
        idx == FindIndex(properties, LAMBDA x : HasNameText(x, "attributes"))
        attributes == IF idx = 0 THEN <<>> ELSE <<properties[idx]>>
        attributeGuards == buildGuardsFromType(attributesType)
        omittedGuards == calculateOmittedGuards(types, attributes)
        filteredGuards == SelectSeq(attributeGuards, LAMBDA x : x.name \notin omittedGuards)
        rest == [i \in 1..(Len(properties) - (IF idx = 0 THEN 0 ELSE 1)) |->
                    IF idx = 0 \/ i < idx THEN properties[i] ELSE properties[i + 1]]
    IN  IF /\ attributes # <<>>
           /\ attributes[1].kind = "assignment"
           /\ IsObject(attributes[1].initializer)
        THEN [defined |-> TRUE,
              properties |-> Append(rest,
                  Prop("assignment", attributes[1].nameKind, attributes[1].name,
                       Obj(attributes[1].initializer[2] \o filteredGuards)))]
        ELSE [defined |-> TRUE,
              properties |-> Append(rest, PropertyAssignment("attributes", Obj(filteredGuards)))]

\* Mutation of updateInstanceGuard: the assignability test the other way round
updateInstanceGuardSubToSuper(types, properties) ==
    IF \/ ~types.instance.exists \/ ~types.instance.parentIsBase
       \/ ~types.superClass.exists
       \/ \E i \in DOMAIN properties : HasNameText(properties[i], "instanceGuard")
       \/ ~types.superClass.instance.exists
    THEN [defined |-> FALSE, properties |-> properties]
    ELSE IF ~isTypeAssignableTo(types.instance.type, types.superClass.instance.type)
         THEN [defined |-> TRUE,
               properties |-> Append(properties,
                   PropertyAssignment("instanceGuard", buildGuardFromType(types.instance.type)))]
         ELSE [defined |-> TRUE, properties |-> properties]

\* Mutation of updateInstanceGuard: a class without superclass gets the guard
updateInstanceGuardWithoutSuper(types, properties) ==
    IF \/ ~types.instance.exists \/ ~types.instance.parentIsBase
       \/ \E i \in DOMAIN properties : HasNameText(properties[i], "instanceGuard")
       \/ (types.superClass.exists /\ ~types.superClass.instance.exists)
    THEN [defined |-> FALSE, properties |-> properties]
    ELSE IF \/ ~types.superClass.exists
            \/ ~isTypeAssignableTo(types.superClass.instance.type, types.instance.type)
         THEN [defined |-> TRUE,
               properties |-> Append(properties,
                   PropertyAssignment("instanceGuard", buildGuardFromType(types.instance.type)))]
         ELSE [defined |-> TRUE, properties |-> properties]

updateInstanceGuard(types, properties) ==
    IF ~types.instance.exists \/ ~types.instance.parentIsBase
    THEN [defined |-> FALSE, properties |-> properties]
    ELSE IF ~types.superClass.exists
    THEN [defined |-> FALSE, properties |-> properties]
    ELSE IF \E i \in DOMAIN properties : HasNameText(properties[i], "instanceGuard")
    THEN [defined |-> FALSE, properties |-> properties]
    ELSE
    LET instanceType == types.instance.type IN
    IF ~types.superClass.instance.exists
    THEN [defined |-> FALSE, properties |-> properties]
    ELSE
    LET superInstanceType == types.superClass.instance.type IN
    IF ~isTypeAssignableTo(superInstanceType, instanceType)
    THEN [defined |-> TRUE,
          properties |-> Append(properties,
              PropertyAssignment("instanceGuard", buildGuardFromType(instanceType)))]
    ELSE [defined |-> TRUE, properties |-> properties]

\* `x = f(x) ?? x` twice
updateComponentConfig(types, properties) ==
    LET p1 == updateAttributeGuards(types, properties).properties
    IN  updateInstanceGuard(types, p1).properties

generateFlameworkConfig(types, decorator, config) ==
    LET properties == IF decorator.name = "Component"
                      THEN updateComponentConfig(types, config[2])
                      ELSE config[2]
    IN  Obj(<<PropertyAssignment("type", Str(decorator.name))>> \o properties)

\* Mutation of decoratorConfig: every annotation takes the recognized path
decoratorConfigAllRecognized(types, decorator) ==
    generateFlameworkConfig(types, decorator,
        IF decorator.arguments # <<>> /\ IsObject(decorator.arguments[1])
        THEN decorator.arguments[1] ELSE Obj(<<>>))

\* The config of one WithNodes decorator (the loop body of the decorators loop)
decoratorConfig(types, decorator) ==
    IF decorator.isFlameworkDecorator
    THEN generateFlameworkConfig(types, decorator,
            IF decorator.arguments # <<>> /\ IsObject(decorator.arguments[1])
            THEN decorator.arguments[1] ELSE Obj(<<>>))
    ELSE Obj(<<PropertyAssignment("type", Str("Arbitrary")),
               PropertyAssignment("arguments", Arr(decorator.arguments))>>)

-----------------------------------------------------------------------------
(* Class members and statements.                                           *)
(* Every member is a record of one shape:                                  *)
(*   kind        "property", "method" or "constructor"                     *)
(*   name        the text of its name ("" for a constructor)               *)
(*   hasText     "text" in x.name (FALSE for a computed name)              *)
(*   hasInit     a property with an initializer                            *)
(*   refs        names of the class fields the initializer refers to       *)
(*   form        how the property is written: "declared" (type stated or   *)
(*               statable), "unrepresentable" (no TypeNode for its type);  *)
(*               after the rewrite "definite" (`name!: T`, no initializer) *)
(*               or "inferred" (initializer replaced by the infer call)    *)
(*   parameters  of a constructor                                          *)
(*   hasBody, body   of a method or constructor                            *)

Member(kind, name, hasText, hasInit, refs, form, parameters, hasBody, body) ==
    [kind |-> kind, name |-> name, hasText |-> hasText, hasInit |-> hasInit,
     refs |-> refs, form |-> form, parameters |-> parameters,
     hasBody |-> hasBody, body |-> body]

PropertyDeclaration(name, hasText, hasInit, refs, form) ==
    Member("property", name, hasText, hasInit, refs, form, <<>>, FALSE, <<>>)

MethodDeclaration(name, hasBody, body) ==
    Member("method", name, TRUE, FALSE, {}, "declared", <<>>, hasBody, body)

ConstructorDeclaration(parameters, body) ==
    Member("constructor", "", FALSE, FALSE, {}, "declared", parameters, TRUE, body)

\* A constructor parameter: its type node and its name (identifier or pattern)
Parameter(typeKind, declaration, nameKind, name) ==
    [type |-> [kind |-> typeKind, declaration |-> declaration],
     nameKind |-> nameKind, name |-> name]

\* Statements.  Written by the author: "plain", "superStatement" (`super(..);`)
\* and "nestedSuper" (a statement with a super call somewhere inside it).
\* Made by the rewrite: "superCall", "setParameters", "destructure",
\* "bindPattern" (of parameter id), "assign" (this.name = initializer), "block".
Statement(kind, id, name, stmts) ==
    [kind |-> kind, id |-> id, name |-> name, stmts |-> stmts]

Plain(id) == Statement("plain", id, "", <<>>)

\* x.name && "text" in x.name && x.name.text === "onStart"
IsNamedOnStart(x) == x.kind # "constructor" /\ x.hasText /\ x.name = "onStart"

IsComponent(x) == x.isFlameworkDecorator /\ x.name = "Component"

-----------------------------------------------------------------------------
(* Class metadata synthesizer: the steps of transformClassDeclaration.     *)

Record(key, value) == [key |-> key, value |-> value]

\* The first constructor of the class, as a sequence of length 0 or 1
FindConstructor(members) ==
    LET i == FindIndex(members, LAMBDA x : x.kind = "constructor")
    IN  IF i = 0 THEN <<>> ELSE <<members[i]>>

BadParameter(param) ==
    param.type.kind # "reference" \/ param.type.declaration = "undefined"

\* Mutation of constructorDependencies: the list is built back to front
constructorDependenciesReversed(parameters) ==
    [i \in DOMAIN parameters |->
        getUid(parameters[Len(parameters) + 1 - i].type.declaration)]

\* The loop over constructor.parameters, when no parameter is rejected
constructorDependencies(parameters) ==
    [i \in DOMAIN parameters |-> getUid(parameters[i].type.declaration)]

\* The Component branch of the heritage block, after the member-name check
injectOnStart(implementClauses, decorators) ==
    IF /\ \E i \in DOMAIN decorators : IsComponent(decorators[i])
       /\ Str(getUid("OnStart")) \notin Range(implementClauses)
    THEN Append(implementClauses, Str(getUid("OnStart")))
    ELSE implementClauses

\* The loops over node.heritageClauses
implementClauses(heritageClauses) ==
    Flatten([c \in DOMAIN heritageClauses |->
        IF heritageClauses[c].token # "implements" THEN <<>>
        ELSE LET ok == SelectSeq(heritageClauses[c].types,
                           LAMBDA t : t.isIdentifier /\ t.declaration # "undefined")
             IN  [i \in DOMAIN ok |-> Str(getUid(ok[i].declaration))]])

\* Mutation of MapSet: a key that is already present keeps its first value
MapSetKeepFirst(map, key, value) ==
    IF \E i \in DOMAIN map : map[i][1] = key
    THEN map
    ELSE Append(map, <<key, value>>)

\* Map.prototype.set on a Map kept as its ordered list of <<key, value>>
MapSet(map, key, value) ==
    IF \E i \in DOMAIN map : map[i][1] = key
    THEN [i \in DOMAIN map |-> IF map[i][1] = key THEN <<key, value>> ELSE map[i]]
    ELSE Append(map, <<key, value>>)

\* Mutation of decoratorConfigs: an array of pairs instead of a Map
decoratorConfigsArray(types, decorators) ==
    [i \in DOMAIN decorators |->
        <<getUid(decorators[i].declaration), decoratorConfig(types, decorators[i])>>]

RECURSIVE decoratorConfigs(_, _)
decoratorConfigs(types, decorators) ==
    IF decorators = <<>> THEN <<>>
    ELSE LET n == Len(decorators)
             decorator == decorators[n]
         IN  MapSet(decoratorConfigs(types, SubSeq(decorators, 1, n - 1)),
                    getUid(decorator.declaration), decoratorConfig(types, decorator))

\* classInfo.decorators.filter((x) => x.type === "WithNodes")
WithNodes(decorators) == SelectSeq(decorators, LAMBDA x : x.type = "WithNodes")

NoResult == [returned |-> FALSE, members |-> <<>>, records |-> <<>>]

Fail(message) ==
    /\ pc' = "failed"
    /\ diag' = message
    /\ UNCHANGED <<node, fields, result>>

\* Lines 21-30: early returns, then `identifier` and `isExternal`
Begin ==
    /\ pc = "start"
    /\ IF ~node.hasInfo
       THEN /\ pc' = "done"
            /\ result' = [returned |-> TRUE, members |-> node.members, records |-> <<>>]
            /\ UNCHANGED <<node, fields, diag>>
       ELSE /\ pc' = "dependencies"
            /\ fields' = <<Record(<<"identifier">>, Str(getUid("Class"))),
                           Record(<<"flamework:isExternal">>, Bool(node.isExternal))>>
            /\ UNCHANGED <<node, diag, result>>

\* Lines 25-40: the constructor's parameter types
Dependencies ==
    /\ pc = "dependencies"
    /\ LET constructor == FindConstructor(node.members) IN
       IF constructor = <<>>
       THEN /\ pc' = "implements"
            /\ UNCHANGED <<node, fields, diag, result>>
       ELSE LET parameters == constructor[1].parameters
                bad == FindIndex(parameters, BadParameter)
            IN  IF bad # 0
                THEN IF parameters[bad].type.kind # "reference"
                     THEN Fail("Expected type reference")
                     ELSE Fail("Could not find declaration")
                ELSE /\ pc' = "implements"
                     /\ fields' =
                          IF Len(parameters) > 0
                          THEN Append(fields,
                                 Record(<<"flamework:dependencies">>,
                                        Arr(Map(constructorDependencies(parameters), Str))))
                          ELSE fields
                     /\ UNCHANGED <<node, diag, result>>

\* Lines 42-75: the implements clauses and the lifecycle interface
Implements ==
    /\ pc = "implements"
    /\ IF ~node.heritageClauses.defined
       THEN /\ pc' = "decorators"
            /\ UNCHANGED <<node, fields, diag, result>>
       ELSE LET clauses == implementClauses(node.heritageClauses.clauses)
                collision ==
                    /\ \E i \in DOMAIN node.decorators : IsComponent(node.decorators[i])
                    /\ Str(getUid("OnStart")) \notin Range(clauses)
                    /\ \E i \in DOMAIN node.members : IsNamedOnStart(node.members[i])
                all == injectOnStart(clauses, node.decorators)
            IN  IF collision
                THEN Fail("Components can not have a member named 'onStart'")
                ELSE /\ pc' = "decorators"
                     /\ fields' =
                          IF Len(all) > 0
                          THEN Append(fields, Record(<<"flamework:implements">>, Arr(all)))
                          ELSE fields
                     /\ UNCHANGED <<node, diag, result>>

\* Mutation of decoratorRecords: the configs are emitted before the list
decoratorRecordsConfigsFirst(types, decorators) ==
    LET configs == decoratorConfigs(types, decorators)
    IN  [i \in DOMAIN configs |->
            Record(<<"flamework:decorators", configs[i][1]>>, configs[i][2])]
        \o <<Record(<<"flamework:decorators">>,
                    Arr([i \in DOMAIN decorators |-> Str(getUid(decorators[i].declaration))]))>>

\* Lines 78-98: the `decorators` list, then one record per Map entry
decoratorRecords(types, decorators) ==
    LET decoratorIds == [i \in DOMAIN decorators |-> getUid(decorators[i].declaration)]
        configs == decoratorConfigs(types, decorators)
    IN  <<Record(<<"flamework:decorators">>, Arr(Map(decoratorIds, Str)))>>
        \o [i \in DOMAIN configs |->
              Record(<<"flamework:decorators", configs[i][1]>>, configs[i][2])]

Decorators ==
    /\ pc = "decorators"
    /\ pc' = "updateClass"
    /\ fields' = fields \o decoratorRecords(node.types, WithNodes(node.decorators))
    /\ UNCHANGED <<node, diag, result>>

-----------------------------------------------------------------------------
(* Constructor/field lifecycle rewriter: updateClass.                      *)
(* Member positions are the 0-based array indices of the source.           *)

At(members, i) == members[i + 1]

\* memberIndexMapping.get(symbol): the index of the property declaration
\* whose symbol it is, -1 for `undefined`
memberIndexMapping(members, name) ==
    LET hits == {i \in 0..(Len(members) - 1) :
                    /\ At(members, i).kind = "property"
                    /\ At(members, i).hasText
                    /\ At(members, i).name = name}
    IN  IF hits = {} THEN -1 ELSE CHOOSE i \in hits : \A j \in hits : j <= i

\* Lines 141-148: the properties whose assignment is deferred
IsDeferred(x) == x.kind = "property" /\ x.hasInit /\ x.hasText

\* Lines 150-161: does the validator raise on the initializer of member i
validatorRaises(members, i) ==
    \E name \in At(members, i).refs :
        LET symbolIndex == memberIndexMapping(members, name)
        IN  /\ symbolIndex # -1
            /\ symbolIndex # 0      \* `if (!symbolIndex) return;`
            /\ symbolIndex >= i

\* Lines 163-191: the rewritten declaration of a deferred property
rewriteProperty(x) ==
    IF x.form = "declared"
    THEN [x EXCEPT !.hasInit = FALSE, !.refs = {}, !.form = "definite"]
    ELSE [x EXCEPT !.form = "inferred"]

\* Line 227: the first super call inside the constructor; 0 if there is none
superCallIndex(body) ==
    FindIndex(body, LAMBDA x : x.kind \in {"superStatement", "nestedSuper"})

\* Lines 207-218: the statements binding the destructured parameters
bindPatterns(parameters) ==
    LET idx == SelectSeq([i \in DOMAIN parameters |-> i],
                         LAMBDA i : parameters[i].nameKind # "identifier")
    IN  [k \in DOMAIN idx |-> Statement("bindPattern", idx[k], "", <<>>)]

\* Mutation of remainingStatements: the base-call statement is kept as well
remainingStatementsAll(body) == body

\* Line 235: constructor.body.statements.filter((x) => x !== superCall?.parent)
remainingStatements(body) ==
    LET sc == superCallIndex(body)
    IN  SelectSeq(body, LAMBDA x : ~(sc # 0 /\ body[sc].kind = "superStatement"
                                       /\ x = body[sc]))

\* Lines 194-235: the statements moved out of the constructor
constructorStatements(constructor) ==
    <<Statement("destructure", 0, "", <<>>)>>
    \o bindPatterns(constructor.parameters)
    \o remainingStatements(constructor.body)

\* Mutation of constructorBody: the parameters are captured before the base call
constructorBodyCaptureFirst(constructor) ==
    IF superCallIndex(constructor.body) # 0
    THEN <<Statement("setParameters", 0, "", <<>>), Statement("superCall", 0, "", <<>>)>>
    ELSE <<Statement("setParameters", 0, "", <<>>)>>

\* Lines 231-246: the body of the rewritten constructor
constructorBody(constructor) ==
    IF superCallIndex(constructor.body) # 0
    THEN <<Statement("superCall", 0, "", <<>>), Statement("setParameters", 0, "", <<>>)>>
    ELSE <<Statement("setParameters", 0, "", <<>>)>>

\* Lines 208-218: binding patterns become fresh identifiers
rewriteParameters(parameters) ==
    [i \in DOMAIN parameters |->
        IF parameters[i].nameKind = "identifier" THEN parameters[i]
        ELSE [parameters[i] EXCEPT !.nameKind = "identifier", !.name = "binding"]]

\* Mutation of onStartBody: the captured-parameter block precedes the assignments
onStartBodyBlockFirst(propertyDeclarations, moved, onStart) ==
    <<Statement("block", 0, "", moved)>>
    \o [i \in DOMAIN propertyDeclarations |->
          Statement("assign", 0, propertyDeclarations[i], <<>>)]
    \o onStart.body

\* Lines 251-266: the body of the rewritten lifecycle hook
onStartBody(propertyDeclarations, moved, onStart) ==
    [i \in DOMAIN propertyDeclarations |->
        Statement("assign", 0, propertyDeclarations[i], <<>>)]
    \o <<Statement("block", 0, "", moved)>>
    \o onStart.body

\* The whole of updateClass: [error, rewritten, members]
updateClass(members0, decorators) ==
    IF ~\E d \in DOMAIN decorators : IsComponent(decorators[d])
    THEN [error |-> "none", rewritten |-> FALSE, members |-> members0]
    ELSE
    LET found == FindIndex(members0, IsNamedOnStart)
        members1 == IF found = 0
                    THEN <<MethodDeclaration("onStart", TRUE, <<>>)>> \o members0
                    ELSE members0
        onStart == IF found = 0 THEN members1[1] ELSE members0[found]
    IN
    IF ~(onStart.kind = "method" /\ onStart.hasBody)
    THEN [error |-> "none", rewritten |-> FALSE, members |-> members1]
    ELSE
    LET deferred == SelectSeq(members1, IsDeferred)
        propertyDeclarations == [i \in DOMAIN deferred |-> deferred[i].name]
        raises == \E i \in 0..(Len(members1) - 1) :
                     IsDeferred(At(members1, i)) /\ validatorRaises(members1, i)
        members2 == [i \in DOMAIN members1 |->
                        IF IsDeferred(members1[i]) THEN rewriteProperty(members1[i])
                        ELSE members1[i]]
        constructorIndex == FindIndex(members2, LAMBDA x : x.kind = "constructor")
        constructor == members2[constructorIndex]
        moved == IF constructorIndex = 0 THEN <<>> ELSE constructorStatements(constructor)
        members3 ==
            IF constructorIndex = 0 THEN members2
            ELSE <<PropertyDeclaration("constructor_parameters", TRUE, FALSE, {}, "declared")>>
                 \o [i \in DOMAIN members2 |->
                        IF i = constructorIndex
                        THEN [constructor EXCEPT
                                !.parameters = rewriteParameters(constructor.parameters),
                                !.body = constructorBody(constructor)]
                        ELSE members2[i]]
        onStartIndex == FindIndex(members3, IsNamedOnStart)
        members4 == [members3 EXCEPT ![onStartIndex] =
                        [onStart EXCEPT !.body = onStartBody(propertyDeclarations, moved, onStart)]]
    IN  IF raises
        THEN [error |-> "Property is used before its initialization.",
              rewritten |-> FALSE, members |-> members0]
        ELSE [error |-> "none", rewritten |-> TRUE, members |-> members4]

\* Line 110: return [updateClass(state, node, decorators), ...realFields]
UpdateClass ==
    /\ pc = "updateClass"
    /\ LET r == updateClass(node.members, WithNodes(node.decorators)) IN
       IF r.error # "none"
       THEN Fail(r.error)
       ELSE /\ pc' = "done"
            /\ result' = [returned |-> TRUE, members |-> r.members, records |-> fields]
            /\ UNCHANGED <<node, fields, diag>>

Next == Begin \/ Dependencies \/ Implements \/ Decorators \/ UpdateClass

-----------------------------------------------------------------------------
(* The classes explored.                                                   *)

Node(hasInfo, isExternal, members, heritageClauses, decorators, types) ==
    [hasInfo |-> hasInfo, isExternal |-> isExternal, members |-> members,
     heritageClauses |-> heritageClauses, decorators |-> decorators, types |-> types]

NoRepeat(q) == \A i, j \in DOMAIN q : i # j => q[i] # q[j]

\* --- annotations
Decorator(type, isFlameworkDecorator, name, declaration, arguments) ==
    [type |-> type, isFlameworkDecorator |-> isFlameworkDecorator, name |-> name,
     declaration |-> declaration, arguments |-> arguments]

Component(arguments) == Decorator("WithNodes", TRUE, "Component", "Component", arguments)
ComponentBase == Decorator("Base", TRUE, "Component", "Component", <<>>)
Service == Decorator("WithNodes", TRUE, "Service", "Service", <<>>)
Custom(arguments) == Decorator("WithNodes", FALSE, "Custom", "Custom", arguments)
Other == Decorator("WithNodes", FALSE, "Other", "Other", <<Ident("e1")>>)

DecoratorUniverse ==
    {Component(<<>>), ComponentBase, Service,
     Custom(<<Ident("e1"), Ident("e2")>>), Custom(<<Ident("e2")>>), Other}

DecoratorLists == SeqsUpTo(DecoratorUniverse, MaxDecorators)

\* --- heritage clauses
TypeExpression(isIdentifier, declaration) ==
    [isIdentifier |-> isIdentifier, declaration |-> declaration]

ImplementsUniverse ==
    {TypeExpression(TRUE, "OnStart"), TypeExpression(TRUE, "IFoo"),
     TypeExpression(TRUE, "undefined"), TypeExpression(FALSE, "IFoo")}

Clause(token, types) == [token |-> token, types |-> types]

Extends == Clause("extends", <<TypeExpression(TRUE, "Other")>>)

NoHeritage == [defined |-> FALSE, clauses |-> <<>>]
Heritage(clauses) == [defined |-> TRUE, clauses |-> clauses]

HeritageUniverse ==
    {NoHeritage, Heritage(<<Extends>>)}
    \cup {Heritage(<<Clause("implements", ts)>>) :
            ts \in SeqsUpTo(ImplementsUniverse, MaxImplements) \ {<<>>}}
    \cup {Heritage(<<Extends, Clause("implements", ts)>>) :
            ts \in SeqsUpTo(ImplementsUniverse, MaxImplements) \ {<<>>}}

ExtendsImplementsOnStart ==
    Heritage(<<Extends, Clause("implements", <<TypeExpression(TRUE, "OnStart")>>)>>)

\* --- constructors
ParameterTypes ==
    {Parameter("reference", "Dep1", "identifier", "p"),
     Parameter("reference", "Dep2", "identifier", "p"),
     Parameter("reference", "undefined", "identifier", "p"),
     Parameter("other", "undefined", "identifier", "p")}

\* The i-th parameter is named after its position
ParameterNames == <<"p1", "p2", "p3", "p4">>
Named(parameters) ==
    [i \in DOMAIN parameters |-> [parameters[i] EXCEPT !.name = ParameterNames[i]]]

GoodParameters ==
    Named(<<Parameter("reference", "Dep1", "identifier", "p"),
            Parameter("reference", "Dep2", "identifier", "p")>>)

\* --- type facts
Fact(exists, parentIsBase, type) ==
    [exists |-> exists, parentIsBase |-> parentIsBase, type |-> type]

SuperClass(exists, attributes, instance) ==
    [exists |-> exists, attributes |-> attributes, instance |-> instance]

TypeFacts(attributes, instance, superClass) ==
    [attributes |-> attributes, instance |-> instance, superClass |-> superClass]

\* A class extending a component whose attribute `a` it re-types and whose
\* instance type it narrows
DefaultTypes ==
    TypeFacts(Fact(TRUE, TRUE, <<<<"a", "Part">>, <<"b", "Part">>>>),
              Fact(TRUE, TRUE, "Part"),
              SuperClass(TRUE, Fact(TRUE, TRUE, <<<<"a", "BasePart">>, <<"b", "Part">>>>),
                         Fact(TRUE, TRUE, "BasePart")))

OnStartMethod(body) == MethodDeclaration("onStart", TRUE, body)

\* --- the classes of the metadata checks
MetaMembers ==
    {<<>>, <<ConstructorDeclaration(GoodParameters, <<>>)>>}

\* Every parameter list
MetaParameters ==
    \E ps \in SeqsUpTo(ParameterTypes, MaxParams),
       h \in {NoHeritage, Heritage(<<Extends>>),
              Heritage(<<Extends, Clause("implements", <<TypeExpression(TRUE, "IFoo")>>)>>)},
       ds \in {<<>>, <<Component(<<>>)>>, <<Custom(<<Ident("e1"), Ident("e2")>>)>>} :
        node = Node(TRUE, FALSE, <<ConstructorDeclaration(Named(ps), <<>>)>>, h, ds, DefaultTypes)

\* Every heritage
MetaHeritage ==
    \E ms \in MetaMembers,
       hook \in {<<>>, <<OnStartMethod(<<>>)>>},
       h \in HeritageUniverse,
       ds \in {<<>>, <<Component(<<>>)>>, <<ComponentBase>>, <<Service>>} :
        node = Node(TRUE, FALSE, ms \o hook, h, ds, DefaultTypes)

\* Every annotation list
MetaDecorators ==
    \E ext \in BOOLEAN,
       ms \in MetaMembers,
       h \in {NoHeritage, Heritage(<<Extends>>),
              Heritage(<<Extends, Clause("implements", <<TypeExpression(TRUE, "IFoo")>>)>>)},
       ds \in DecoratorLists :
        node = Node(TRUE, ext, ms, h, ds, DefaultTypes)

\* A class the transformer has no ClassInfo for
MetaUnknown == node = Node(FALSE, FALSE, <<>>, NoHeritage, <<>>, DefaultTypes)

\* --- the classes of the guard checks: a Component class, its author-written
\* configuration object and the checker's facts about it and its superclass
AttributeNames == {<<"a", "b", "c", "d">>[i] : i \in 1..MaxAttributes}
AttributeTypes == {"BasePart", "Part"}

\* Every ordered shape over the attribute names
Shapes ==
    {sh \in SeqsUpTo(AttributeNames \X AttributeTypes, MaxAttributes) :
        \A i, j \in DOMAIN sh : i # j => sh[i][1] # sh[j][1]}

\* The shapes with their fields in the order of AttributeNames' sequence
SortedShapes ==
    {sh \in Shapes : \A i, j \in DOMAIN sh :
        i < j => \E m, n \in 1..MaxAttributes :
                    /\ m < n
                    /\ <<"a", "b", "c", "d">>[m] = sh[i][1]
                    /\ <<"a", "b", "c", "d">>[n] = sh[j][1]}

Override(nameKind, name) == Prop("assignment", nameKind, name, Ident("custom"))

\* The author's `attributes: { ... }` objects
Overrides ==
    {ov \in SeqsUpTo({Override(k, n) : k \in {"identifier", "string", "computed"},
                                       n \in AttributeNames}, MaxAttributes) :
        \A i, j \in DOMAIN ov : i # j => ov[i].name # ov[j].name}

Tag == PropertyAssignment("tag", Str("t"))
AuthorGuard == PropertyAssignment("instanceGuard", Ident("custom"))
Attributes(init) == PropertyAssignment("attributes", init)

AttributeFacts ==
    {Fact(FALSE, FALSE, <<>>), Fact(TRUE, FALSE, <<<<"a", "Part">>>>)}
    \cup {Fact(TRUE, TRUE, sh) : sh \in Shapes}

SuperAttributeFacts ==
    {Fact(FALSE, FALSE, <<>>)} \cup {Fact(TRUE, TRUE, sh) : sh \in SortedShapes}

NoSuperClass == SuperClass(FALSE, Fact(FALSE, FALSE, <<>>), Fact(FALSE, FALSE, "Instance"))

ComponentNode(arguments, types) ==
    Node(TRUE, FALSE, <<>>, Heritage(<<Extends>>), <<Component(arguments)>>, types)

\* Every pair of attribute shapes
GuardShapes ==
    \E a \in AttributeFacts,
       sup \in {NoSuperClass}
               \cup {SuperClass(TRUE, sa, DefaultTypes.superClass.instance) :
                        sa \in SuperAttributeFacts},
       args \in {<<>>, <<Ident("e1")>>,
                 <<Obj(<<Tag, Attributes(Obj(<<Override("identifier", "a")>>))>>)>>,
                 <<Obj(<<Prop("shorthand", "identifier", "attributes", Ident("attributes")),
                         Tag>>)>>} :
        node = ComponentNode(args, TypeFacts(a, DefaultTypes.instance, sup))

\* Every author-written attributes object
GuardOverrides ==
    \E ov \in Overrides,
       sup \in {NoSuperClass, DefaultTypes.superClass,
                SuperClass(TRUE, Fact(FALSE, FALSE, <<>>), DefaultTypes.superClass.instance)} :
        node = ComponentNode(<<Obj(<<Attributes(Obj(ov))>>)>>,
                  TypeFacts(DefaultTypes.attributes, DefaultTypes.instance, sup))

\* Every pair of instance types
GuardInstances ==
    \E inst \in {Fact(FALSE, FALSE, "Instance")}
                \cup {Fact(TRUE, b, t) : b \in BOOLEAN, t \in Types},
       sup \in {NoSuperClass}
               \cup {SuperClass(TRUE, DefaultTypes.superClass.attributes, si) :
                        si \in {Fact(FALSE, FALSE, "Instance")}
                               \cup {Fact(TRUE, TRUE, t) : t \in Types}},
       args \in {<<>>, <<Obj(<<AuthorGuard>>)>>, <<Obj(<<Tag>>)>>,
                 <<Obj(<<Attributes(Ident("e1")), AuthorGuard>>)>>} :
        node = ComponentNode(args, TypeFacts(DefaultTypes.attributes, inst, sup))

\* --- the classes of the lifecycle checks
FieldNames == <<"f1", "f2", "f3", "f4">>

\* The ways to write the field called `name` in a class of n fields
FieldVariants(name, n) ==
    {PropertyDeclaration(name, TRUE, FALSE, {}, "declared"),
     PropertyDeclaration(name, TRUE, TRUE, {}, "unrepresentable"),
     PropertyDeclaration(name, FALSE, TRUE, {}, "declared")}
    \cup {PropertyDeclaration(name, TRUE, TRUE, refs, "declared") :
            refs \in SUBSET {FieldNames[k] : k \in 1..n}}

\* The lists of the first k of n fields, named in declaration order
RECURSIVE FieldPrefixes(_, _)
FieldPrefixes(k, n) ==
    IF k = 0 THEN {<<>>}
    ELSE {Append(fs, x) : fs \in FieldPrefixes(k - 1, n),
                          x \in FieldVariants(FieldNames[k], n)}

\* Every list of at most MaxFields fields
FieldLists == UNION {FieldPrefixes(n, n) : n \in 0..MaxFields}

InsertAt(q, p, x) == SubSeq(q, 1, p) \o <<x>> \o SubSeq(q, p + 1, Len(q))

\* A field list with a member named onStart put somewhere into it
WithHook(fs) ==
    {InsertAt(fs, p, hook) :
        p \in 0..Len(fs),
        hook \in {OnStartMethod(<<>>), OnStartMethod(<<Plain(10), Plain(11)>>)}}
    \cup {InsertAt(fs, 0, hook) :
        hook \in {MethodDeclaration("onStart", FALSE, <<>>),
                  PropertyDeclaration("onStart", TRUE, TRUE, {}, "declared")}}

SuperStatement == Statement("superStatement", 0, "", <<>>)
NestedSuper == Statement("nestedSuper", 0, "", <<>>)

\* Constructor bodies: distinct statements, at most one of them with a super call
ConstructorBodies ==
    {b \in SeqsUpTo({Plain(i) : i \in 1..MaxStatements} \cup {SuperStatement, NestedSuper},
                    MaxStatements) :
        /\ NoRepeat(b)
        /\ Cardinality({i \in DOMAIN b : b[i].kind # "plain"}) <= 1}

Constructors ==
    {ConstructorDeclaration(Named(ps), b) :
        ps \in SeqsUpTo({Parameter("reference", "Dep1", k, "p") :
                            k \in {"identifier", "pattern"}}, MaxParams),
        b \in ConstructorBodies}

InitializedField == PropertyDeclaration("f1", TRUE, TRUE, {}, "declared")

\* Every field list, without a lifecycle hook of the author's
RewriteFields ==
    \E fs \in FieldLists :
        node = Node(TRUE, FALSE, fs, Heritage(<<Extends>>), <<Component(<<>>)>>, DefaultTypes)

\* Every field list, with a member named onStart
RewriteHooks ==
    \E fs \in FieldLists :
    \E ms \in WithHook(fs) :
        node = Node(TRUE, FALSE, ms, ExtendsImplementsOnStart, <<Component(<<>>)>>,
                    DefaultTypes)

\* Every constructor
RewriteConstructors ==
    \E c \in Constructors :
    \E ms \in {<<c>>, <<InitializedField, c>>, <<c, InitializedField>>,
               <<c, OnStartMethod(<<Plain(10)>>)>>,
               <<InitializedField, OnStartMethod(<<Plain(10)>>), c>>},
       h \in {NoHeritage, ExtendsImplementsOnStart} :
        node = Node(TRUE, FALSE, ms, h, <<Component(<<>>)>>, DefaultTypes)

\* Classes that are no component, or whose Component annotation has no nodes
RewriteOthers ==
    \E ms \in {<<InitializedField>>,
               <<InitializedField, ConstructorDeclaration(GoodParameters, <<Plain(1)>>)>>,
               <<InitializedField, OnStartMethod(<<Plain(10)>>)>>},
       h \in {NoHeritage, ExtendsImplementsOnStart},
       ds \in {<<>>, <<Service>>, <<ComponentBase>>, <<Other>>,
               <<Other, Component(<<>>)>>} :
        node = Node(TRUE, FALSE, ms, h, ds, DefaultTypes)

Start ==
    /\ pc = "start"
    /\ fields = <<>>
    /\ diag = "none"
    /\ result = NoResult

Init == (MetaParameters \/ MetaHeritage \/ MetaDecorators \/ MetaUnknown) /\ Start

Spec == Init /\ [][Next]_vars

InitGuards == (GuardShapes \/ GuardOverrides \/ GuardInstances) /\ Start

SpecGuards == InitGuards /\ [][Next]_vars

InitRewrite ==
    (RewriteFields \/ RewriteHooks \/ RewriteConstructors \/ RewriteOthers) /\ Start

SpecRewrite == InitRewrite /\ [][Next]_vars

-----------------------------------------------------------------------------
(* Properties of the metadata records.                                     *)

Keys(records) == [i \in DOMAIN records |-> records[i].key]

HasKey(records, key) == \E i \in DOMAIN records : records[i].key = key

ValueOf(records, key) == records[CHOOSE i \in DOMAIN records : records[i].key = key].value

\* The class was processed to the end and its records were returned
Emitted == pc = "done" /\ node.hasInfo /\ result.returned

\* Position of a key in the contract's order; every `decorators.<uid>` is 6
Rank(key) ==
    CASE key = <<"identifier">> -> 1
      [] key = <<"flamework:isExternal">> -> 2
      [] key = <<"flamework:dependencies">> -> 3
      [] key = <<"flamework:implements">> -> 4
      [] key = <<"flamework:decorators">> -> 5
      [] OTHER -> 6

InContractOrder(records) ==
    /\ \A i, j \in DOMAIN records :
          i < j => /\ Rank(records[i].key) <= Rank(records[j].key)
                   /\ Rank(records[i].key) < 6 => Rank(records[i].key) < Rank(records[j].key)
    /\ Len(records) >= 1 => records[1].key = <<"identifier">>
    /\ Len(records) >= 2 => records[2].key = <<"flamework:isExternal">>
    /\ \A i \in DOMAIN records :
          Rank(records[i].key) = 6 =>
             Len(records[i].key) = 2 /\ records[i].key[1] = "flamework:decorators"

\* A class with a 2-parameter constructor and one recognized annotation
TwoParametersOneRecognized ==
    /\ FindConstructor(node.members) # <<>>
    /\ Len(FindConstructor(node.members)[1].parameters) = 2
    /\ Len(node.decorators) = 1
    /\ node.decorators[1].isFlameworkDecorator
    /\ node.decorators[1].type = "WithNodes"

ParticularKeys ==
    <<<<"identifier">>, <<"flamework:isExternal">>, <<"flamework:dependencies">>,
      <<"flamework:decorators">>,
      <<"flamework:decorators", getUid(node.decorators[1].declaration)>>>>

ParticularLengths ==
    /\ Len(ValueOf(result.records, <<"flamework:dependencies">>)[2]) = 2
    /\ Len(ValueOf(result.records, <<"flamework:decorators">>)[2]) = 1

\* C1 as stated: the records are in the order identifier, isExternal,
\* dependencies, implements, decorators, decorators.<uid>, and a class with a
\* 2-parameter constructor and one recognized annotation has exactly the keys
\* identifier, isExternal, dependencies, decorators, decorators.<uid>.
C1_AsStated ==
    /\ InContractOrder(fields)
    /\ Emitted =>
          /\ InContractOrder(result.records)
          /\ TwoParametersOneRecognized =>
                Keys(result.records) = ParticularKeys /\ ParticularLengths

\* C1 (amended): the records are in the order identifier, isExternal,
\* dependencies, implements, decorators, decorators.<uid>; for a class with a
\* 2-parameter constructor and one recognized annotation the keys are
\* identifier, isExternal, dependencies (length 2), then `implements` when
\* the class has one, then decorators (length 1) and one decorators.<uid>.
C1_RecordOrder ==
    /\ InContractOrder(fields)
    /\ Emitted =>
          /\ InContractOrder(result.records)
          /\ TwoParametersOneRecognized =>
                /\ SelectSeq(Keys(result.records),
                             LAMBDA k : k # <<"flamework:implements">>) = ParticularKeys
                /\ ParticularLengths

C1_Witness ==
    /\ Emitted
    /\ TwoParametersOneRecognized
    /\ Len(result.records) = 6
    /\ result.records[4].key = <<"flamework:implements">>

\* The parameters of the class's constructor; <<>> without a constructor
ConstructorParameters ==
    IF FindConstructor(node.members) = <<>> THEN <<>>
    ELSE FindConstructor(node.members)[1].parameters

RejectedParameter ==
    \E i \in DOMAIN ConstructorParameters :
        \/ ConstructorParameters[i].type.kind # "reference"
        \/ ConstructorParameters[i].type.declaration = "undefined"

\* C2: when the records of a class are emitted, `dependencies` is among them
\* exactly when the constructor has at least one parameter, and it lists the
\* UIDs of the parameters' type declarations in parameter order; a parameter
\* whose type is no type reference or resolves to no declaration raises a
\* fatal diagnostic and no record is emitted.
C2_Dependencies ==
    /\ Emitted =>
          /\ HasKey(result.records, <<"flamework:dependencies">>)
                <=> Len(ConstructorParameters) >= 1
          /\ HasKey(result.records, <<"flamework:dependencies">>) =>
                ValueOf(result.records, <<"flamework:dependencies">>) =
                   Arr([i \in DOMAIN ConstructorParameters |->
                          Str(getUid(ConstructorParameters[i].type.declaration))])
    /\ (node.hasInfo /\ RejectedParameter) =>
          /\ ~result.returned
          /\ result.records = <<>>
          /\ pc \in {"start", "dependencies", "failed"}
          /\ pc = "failed" =>
                diag \in {"Expected type reference", "Could not find declaration"}

C2_Witness ==
    /\ Emitted
    /\ Len(ConstructorParameters) = 2
    /\ ConstructorParameters[1].type.declaration # ConstructorParameters[2].type.declaration
    /\ HasKey(result.records, <<"flamework:dependencies">>)

ListsOnStart ==
    /\ node.heritageClauses.defined
    /\ \E c \in DOMAIN node.heritageClauses.clauses :
          /\ node.heritageClauses.clauses[c].token = "implements"
          /\ \E t \in Range(node.heritageClauses.clauses[c].types) :
                t.isIdentifier /\ t.declaration = "OnStart"

CarriesComponent == \E i \in DOMAIN node.decorators : IsComponent(node.decorators[i])

\* C3: a class with the Component annotation that does not list the OnStart
\* interface and has no member named onStart gets an `implements` record
\* containing the OnStart UID, with or without heritage clauses of its own.
C3_OnStartInjected ==
    (/\ Emitted
     /\ CarriesComponent
     /\ ~ListsOnStart
     /\ ~\E i \in DOMAIN node.members : IsNamedOnStart(node.members[i]))
    => /\ HasKey(result.records, <<"flamework:implements">>)
       /\ Str(getUid("OnStart")) \in Range(ValueOf(result.records, <<"flamework:implements">>)[2])

\* The annotations that reach the configuration builder
Annotations == WithNodes(node.decorators)

ConfigKey(annotation) == <<"flamework:decorators", getUid(annotation.declaration)>>

ArbitraryConfig(fieldName, annotation) ==
    Obj(<<PropertyAssignment(fieldName, Str("Arbitrary")),
          PropertyAssignment("arguments", Arr(annotation.arguments))>>)

\* C4 as stated (the tag field read as `kind` or as `type`): the record of
\* every annotation that is not a recognized kind is the Arbitrary wrapper of
\* that annotation's own arguments.
C4_AsStated ==
    Emitted =>
       \A i \in DOMAIN Annotations :
          ~Annotations[i].isFlameworkDecorator =>
             /\ HasKey(result.records, ConfigKey(Annotations[i]))
             /\ ValueOf(result.records, ConfigKey(Annotations[i])) \in
                   {ArbitraryConfig("kind", Annotations[i]),
                    ArbitraryConfig("type", Annotations[i])}

\* The last annotation of the class resolving to this annotation's UID
IsLastOfItsUid(i) ==
    \A j \in DOMAIN Annotations :
        j > i => Annotations[j].declaration # Annotations[i].declaration

\* C4 (amended): for every annotation that is not a recognized kind and is
\* the last one on the class with its UID, the record decorators.<uid> is
\* exactly {type: "Arbitrary", arguments: [...]} with that annotation's raw
\* arguments in order, and nothing else.
C4_ArbitraryConfig ==
    Emitted =>
       \A i \in DOMAIN Annotations :
          (~Annotations[i].isFlameworkDecorator /\ IsLastOfItsUid(i)) =>
             /\ HasKey(result.records, ConfigKey(Annotations[i]))
             /\ ValueOf(result.records, ConfigKey(Annotations[i])) =
                   ArbitraryConfig("type", Annotations[i])

C4_Witness ==
    /\ Emitted
    /\ ~node.heritageClauses.defined
    /\ Annotations = <<Custom(<<Ident("e1"), Ident("e2")>>)>>
    /\ ValueOf(result.records, <<"flamework:decorators", getUid("Custom")>>) =
          Obj(<<PropertyAssignment("type", Str("Arbitrary")),
                PropertyAssignment("arguments", Arr(<<Ident("e1"), Ident("e2")>>))>>)

UniqueKeys(records) ==
    \A i, j \in DOMAIN records : i # j => records[i].key # records[j].key

\* C8: no two metadata records of a class share a key, whatever its
\* constructor parameters, implements clauses and annotations are.
C8_UniqueKeys == UniqueKeys(fields) /\ UniqueKeys(result.records)

C8_Witness ==
    /\ Emitted
    /\ Len(Annotations) = 2
    /\ Annotations[1].declaration = Annotations[2].declaration
    /\ Annotations[1].arguments # Annotations[2].arguments
    /\ Len(result.records) >= 4

-----------------------------------------------------------------------------
(* Properties of the Component configuration.                              *)

\* The class carries exactly one annotation, a Component with its nodes, and
\* its records were emitted
ComponentEmitted ==
    /\ Emitted
    /\ Len(node.decorators) = 1
    /\ IsComponent(node.decorators[1])
    /\ node.decorators[1].type = "WithNodes"

\* The properties the author wrote in the annotation's configuration object
AuthorProperties ==
    LET arguments == node.decorators[1].arguments
    IN  IF arguments # <<>> /\ IsObject(arguments[1]) THEN arguments[1][2] ELSE <<>>

\* The properties of the emitted configuration record
ConfigProperties ==
    ValueOf(result.records, <<"flamework:decorators", getUid("Component")>>)[2]

Named_(properties, name) == SelectSeq(properties, LAMBDA x : HasNameText(x, name))

AuthorWroteGuard == Named_(AuthorProperties, "instanceGuard") # <<>>

InstanceResolved ==
    /\ node.types.instance.exists
    /\ node.types.instance.parentIsBase
    /\ node.types.superClass.exists
    /\ node.types.superClass.instance.exists

GeneratedGuard ==
    PropertyAssignment("instanceGuard", buildGuardFromType(node.types.instance.type))

\* C5 as stated: with a superclass and no author-written instanceGuard, the
\* guard is left out when the class's instance type is assignable to the
\* superclass's, and the compiled guard of the class's type is added otherwise.
C5_AsStated ==
    (ComponentEmitted /\ InstanceResolved /\ ~AuthorWroteGuard) =>
       IF isTypeAssignableTo(node.types.instance.type, node.types.superClass.instance.type)
       THEN Named_(ConfigProperties, "instanceGuard") = <<>>
       ELSE Named_(ConfigProperties, "instanceGuard") = <<GeneratedGuard>>

\* C5 (amended): with a superclass and no author-written instanceGuard, the
\* guard is left out when the superclass's instance type is assignable to the
\* class's own (the class does not narrow it), and the compiled guard of the
\* class's instance type is added otherwise; when the instance property is
\* not BaseComponent's, or the superclass has none, nothing is added.
C5_InstanceGuard ==
    (ComponentEmitted /\ node.types.superClass.exists /\ ~AuthorWroteGuard) =>
       IF InstanceResolved
       THEN IF isTypeAssignableTo(node.types.superClass.instance.type,
                                  node.types.instance.type)
            THEN Named_(ConfigProperties, "instanceGuard") = <<>>
            ELSE Named_(ConfigProperties, "instanceGuard") = <<GeneratedGuard>>
       ELSE Named_(ConfigProperties, "instanceGuard") = <<>>

\* A class that narrows BasePart to Part, and one that keeps the type
C5_Witness ==
    /\ ComponentEmitted /\ InstanceResolved /\ ~AuthorWroteGuard
    /\ node.types.instance.type = "Part"
    /\ node.types.superClass.instance.type = "BasePart"
    /\ Named_(ConfigProperties, "instanceGuard") = <<GeneratedGuard>>

\* The author's `attributes` property, as a sequence of length 0 or 1
AuthorAttributes ==
    LET named == Named_(AuthorProperties, "attributes")
    IN  IF named = <<>> THEN <<>> ELSE <<named[1]>>

AuthorAttributesObject ==
    /\ AuthorAttributes # <<>>
    /\ AuthorAttributes[1].kind = "assignment"
    /\ IsObject(AuthorAttributes[1].initializer)

\* What the author wrote inside `attributes: { ... }`
AuthorOverrides == IF AuthorAttributesObject THEN AuthorAttributes[1].initializer[2] ELSE <<>>

\* The names the author overrides
OverrideNames == {p.name : p \in {q \in Range(AuthorOverrides) : q.nameKind # "computed"}}

AttributesResolved == node.types.attributes.exists /\ node.types.attributes.parentIsBase

SuperShapeKnown == node.types.superClass.exists /\ node.types.superClass.attributes.exists

\* Fields of both shapes with one and the same type
Unchanged(name) ==
    /\ SuperShapeKnown
    /\ \E i \in DOMAIN node.types.attributes.type :
       \E j \in DOMAIN node.types.superClass.attributes.type :
          /\ node.types.attributes.type[i][1] = name
          /\ node.types.superClass.attributes.type[j][1] = name
          /\ node.types.attributes.type[i][2] = node.types.superClass.attributes.type[j][2]

\* Fields whose type strictly narrows the superclass's
Narrowed(name) ==
    /\ SuperShapeKnown
    /\ \E i \in DOMAIN node.types.attributes.type :
       \E j \in DOMAIN node.types.superClass.attributes.type :
          /\ node.types.attributes.type[i][1] = name
          /\ node.types.superClass.attributes.type[j][1] = name
          /\ node.types.attributes.type[i][2] # node.types.superClass.attributes.type[j][2]
          /\ isTypeAssignableTo(node.types.attributes.type[i][2],
                                node.types.superClass.attributes.type[j][2])

AllNames == ShapeNames(node.types.attributes.type) \cup OverrideNames
               \cup ShapeNames(node.types.superClass.attributes.type)

\* The guards found in the emitted `attributes` object after the author's own
EmittedAttributeGuards ==
    LET emitted == Named_(ConfigProperties, "attributes")[1].initializer[2]
    IN  SubSeq(emitted, Len(AuthorOverrides) + 1, Len(emitted))

\* C6: the omission set holds a name exactly when the author overrides it in
\* the `attributes` object or the field has the identical type in the class's
\* and the superclass's attributes shape; a strictly narrowed field is not
\* omitted; the guards merged into `attributes` are the compiled guards minus
\* that set.
C6_Omissions ==
    (ComponentEmitted /\ AttributesResolved) =>
       LET omitted == calculateOmittedGuards(node.types, AuthorAttributes)
           compiled == buildGuardsFromType(node.types.attributes.type)
       IN  /\ \A name \in AllNames :
                name \in omitted <=> (name \in OverrideNames \/ Unchanged(name))
           /\ \A name \in AllNames :
                (Narrowed(name) /\ name \notin OverrideNames) =>
                   /\ name \notin omitted
                   /\ \E g \in Range(EmittedAttributeGuards) : g.name = name
           /\ Len(Named_(ConfigProperties, "attributes")) = 1
           /\ EmittedAttributeGuards =
                 SelectSeq(compiled, LAMBDA g : ~(g.name \in OverrideNames \/ Unchanged(g.name)))
           /\ SubSeq(Named_(ConfigProperties, "attributes")[1].initializer[2],
                     1, Len(AuthorOverrides)) = AuthorOverrides

\* One field kept as in the superclass, one narrowed: only the second is guarded
C6_Witness ==
    /\ ComponentEmitted /\ AttributesResolved
    /\ \E a, b \in AttributeNames :
          /\ a # b
          /\ Unchanged(a) /\ Narrowed(b) /\ OverrideNames = {}
          /\ Len(EmittedAttributeGuards) = 1
          /\ EmittedAttributeGuards[1].name = b

\* C9 as stated: without a superclass and without an author-written
\* instanceGuard the config receives the compiled instanceGuard, and the
\* omission set is the set of the author's override names.
C9_AsStated ==
    (/\ ComponentEmitted
     /\ ~node.types.superClass.exists
     /\ node.types.instance.exists /\ node.types.instance.parentIsBase
     /\ ~AuthorWroteGuard)
    => /\ Named_(ConfigProperties, "instanceGuard") = <<GeneratedGuard>>
       /\ calculateOmittedGuards(node.types, AuthorAttributes) = OverrideNames

\* C9 (amended): a Component class without a superclass gets no generated
\* instanceGuard (its config has one only if the author wrote it), and its
\* attributes omission set is the set of the author's override names, so that
\* every other field of its attributes shape gets its compiled guard.
C9_NoSuperClass ==
    (ComponentEmitted /\ ~node.types.superClass.exists) =>
       /\ Named_(ConfigProperties, "instanceGuard") = Named_(AuthorProperties, "instanceGuard")
       /\ calculateOmittedGuards(node.types, AuthorAttributes) = OverrideNames
       /\ AttributesResolved =>
             EmittedAttributeGuards =
                SelectSeq(buildGuardsFromType(node.types.attributes.type),
                          LAMBDA g : g.name \notin OverrideNames)

C9_Witness ==
    /\ ComponentEmitted
    /\ ~node.types.superClass.exists
    /\ node.types.instance.exists /\ node.types.instance.parentIsBase
    /\ AttributesResolved
    /\ ~AuthorWroteGuard
    /\ Named_(ConfigProperties, "instanceGuard") = <<>>
    /\ Len(EmittedAttributeGuards) = 2

-----------------------------------------------------------------------------
(* Properties of the lifecycle rewrite.                                    *)

UseBeforeInit == "Property is used before its initialization."

\* The class has the Component annotation with its nodes, and its member
\* named onStart, if any, is a method with a body: updateClass rewrites it
RewriteApplies ==
    /\ node.hasInfo
    /\ \E i \in DOMAIN Annotations : IsComponent(Annotations[i])
    /\ \A i \in DOMAIN node.members :
          IsNamedOnStart(node.members[i]) =>
             node.members[i].kind = "method" /\ node.members[i].hasBody

\* updateClass was reached and has finished
RewriteFinished ==
    /\ pc \in {"done", "failed"}
    /\ diag \in {"none", UseBeforeInit}

\* 0-based position of the field called `name` among the class's members
PositionOf(name) ==
    CHOOSE j \in 0..(Len(node.members) - 1) :
        At(node.members, j).kind = "property" /\ At(node.members, j).hasText
        /\ At(node.members, j).name = name

IsField(name) ==
    \E j \in DOMAIN node.members :
        node.members[j].kind = "property" /\ node.members[j].hasText
        /\ node.members[j].name = name

\* The field at position i has an initializer that refers to a field declared
\* at position i or later
RefersForward(i) ==
    /\ At(node.members, i).kind = "property"
    /\ At(node.members, i).hasInit
    /\ \E name \in At(node.members, i).refs : IsField(name) /\ PositionOf(name) >= i

\* C7: in the lifecycle rewrite, an initializer referring to a field declared
\* at its own position or later raises "used before its initialization",
\* at every position including the first; with every referenced field
\* declared strictly earlier, no such diagnostic is raised.
C7_UseBeforeInit ==
    (RewriteApplies /\ RewriteFinished) =>
       IF \E i \in 0..(Len(node.members) - 1) : RefersForward(i)
       THEN pc = "failed" /\ diag = UseBeforeInit
       ELSE diag # UseBeforeInit

\* The members the call returned
Rewritten == result.members

RewrittenConstructor == FindConstructor(Rewritten)[1]

OriginalConstructor == FindConstructor(node.members)[1]

HasSuperCall(body) == \E i \in DOMAIN body : body[i].kind \in {"superStatement", "nestedSuper"}

\* The original statements without the statement that is the base call
WithoutBaseCall(body) == SelectSeq(body, LAMBDA x : x.kind # "superStatement")

RewrittenHook == Rewritten[FindIndex(Rewritten, IsNamedOnStart)]

\* The statements of the captured-parameter block of the rewritten hook
HookBlock ==
    RewrittenHook.body[FindIndex(RewrittenHook.body, LAMBDA x : x.kind = "block")].stmts

ConstructorRewritten ==
    /\ Emitted
    /\ RewriteApplies
    /\ FindConstructor(node.members) # <<>>

\* C10 as stated: the rewritten constructor body is the base call (if any),
\* the assignment of the captured-parameter field, then the remaining
\* original statements.
C10_AsStated ==
    ConstructorRewritten =>
       LET body == RewrittenConstructor.body
           k == IF HasSuperCall(OriginalConstructor.body) THEN 1 ELSE 0
           rest == WithoutBaseCall(OriginalConstructor.body)
       IN  /\ Len(body) = k + 1 + Len(rest)
           /\ k = 1 => body[1].kind \in {"superCall", "superStatement"}
           /\ body[k + 1].kind = "setParameters"
           /\ SubSeq(body, k + 2, Len(body)) = rest

Occurrences(x, q) == Cardinality({i \in DOMAIN q : q[i] = x})

\* C10 (amended): the rewritten constructor body is the base call (if the
\* original had one) followed by the assignment of the captured-parameter
\* field and nothing else; the remaining original statements, without the
\* base-call statement, are moved in their order to the end of the
\* captured-parameter block of the lifecycle hook, after the destructuring
\* and the pattern bindings; none of them is lost or duplicated.
C10_ConstructorRewrite ==
    ConstructorRewritten =>
       LET body == RewrittenConstructor.body
           original == OriginalConstructor.body
           rest == WithoutBaseCall(original)
           block == HookBlock
       IN  /\ body = IF HasSuperCall(original)
                     THEN <<Statement("superCall", 0, "", <<>>),
                            Statement("setParameters", 0, "", <<>>)>>
                     ELSE <<Statement("setParameters", 0, "", <<>>)>>
           /\ Len(block) >= 1 + Len(rest)
           /\ block[1].kind = "destructure"
           /\ \A i \in 2..(Len(block) - Len(rest)) : block[i].kind = "bindPattern"
           /\ SubSeq(block, Len(block) - Len(rest) + 1, Len(block)) = rest
           /\ \A x \in Range(rest) :
                 Occurrences(x, body) + Occurrences(x, block)
                    + Occurrences(x, RewrittenHook.body) = 1

C10_Witness ==
    /\ ConstructorRewritten
    /\ OriginalConstructor.body = <<Plain(1), SuperStatement>>
    /\ Len(OriginalConstructor.parameters) = 2
    /\ RewrittenConstructor.body = <<Statement("superCall", 0, "", <<>>),
                                     Statement("setParameters", 0, "", <<>>)>>
    /\ HookBlock[Len(HookBlock)] = Plain(1)

\* The statements the author wrote in the member named onStart; none when
\* the class has no such member and the hook is synthesized
OriginalHookBody ==
    LET found == FindIndex(node.members, IsNamedOnStart)
    IN  IF found = 0 THEN <<>> ELSE node.members[found].body

\* The hook body the claim describes, for the fields chosen by `deferred`:
\* one assignment per chosen field in declaration order, one block, then the
\* author's statements
HookBodyFor(deferred) ==
    /\ Len(RewrittenHook.body) = Len(deferred) + 1 + Len(OriginalHookBody)
    /\ \A i \in DOMAIN deferred :
          RewrittenHook.body[i] = Statement("assign", 0, deferred[i].name, <<>>)
    /\ RewrittenHook.body[Len(deferred) + 1].kind = "block"
    /\ SubSeq(RewrittenHook.body, Len(deferred) + 2, Len(RewrittenHook.body))
          = OriginalHookBody

HookRewritten == Emitted /\ RewriteApplies

\* C11 as stated: the rewritten hook body is one assignment per field that
\* had an initializer, in declaration order, then the captured-parameter
\* block, then the author's statements in their order.
C11_AsStated ==
    HookRewritten =>
       HookBodyFor(SelectSeq(node.members,
                             LAMBDA x : x.kind = "property" /\ x.hasInit))

\* C11 (amended): the rewritten hook body is one assignment per field that
\* had an initializer and a statically written name, in declaration order,
\* then the captured-parameter block (empty when the class has no
\* constructor, opening with the destructuring otherwise), then the author's
\* statements in their order; a field with a computed name keeps its
\* initializer in its declaration and gets no assignment.
C11_HookBody ==
    HookRewritten =>
       /\ HookBodyFor(SelectSeq(node.members,
                                LAMBDA x : x.kind = "property" /\ x.hasInit /\ x.hasText))
       /\ IF FindConstructor(node.members) = <<>>
          THEN HookBlock = <<>>
          ELSE HookBlock # <<>> /\ HookBlock[1].kind = "destructure"
       /\ \A i \in DOMAIN node.members :
             (node.members[i].kind = "property" /\ ~node.members[i].hasText) =>
                 \E j \in DOMAIN Rewritten : Rewritten[j] = node.members[i]

C11_Witness ==
    /\ HookRewritten
    /\ OriginalHookBody = <<Plain(10), Plain(11)>>
    /\ node.members[1] = PropertyDeclaration("f1", TRUE, TRUE, {}, "declared")
    /\ node.members[2] = PropertyDeclaration("f2", TRUE, TRUE, {"f1"}, "declared")
    /\ RewrittenHook.body = <<Statement("assign", 0, "f1", <<>>),
                              Statement("assign", 0, "f2", <<>>),
                              Statement("block", 0, "", <<>>),
                              Plain(10), Plain(11)>>

\* The hook body with a captured constructor: the block is not empty
C11_WitnessConstructor ==
    /\ HookRewritten
    /\ FindConstructor(node.members) # <<>>
    /\ Len(RewrittenHook.body) = 3
    /\ RewrittenHook.body[1] = Statement("assign", 0, "f1", <<>>)
    /\ Len(HookBlock) >= 2
    /\ RewrittenHook.body[3] = Plain(10)

\* The class carries the Component annotation, given with its nodes
ComponentAnnotated == \E i \in DOMAIN Annotations : IsComponent(Annotations[i])

\* The returned members are the full rewrite: a lifecycle hook with a body
\* exists, every initialized field with a written name has its assignment in
\* the hook, and the parameters of the constructor, if any, are captured
FullyRewritten ==
    /\ FindIndex(Rewritten, IsNamedOnStart) # 0
    /\ RewrittenHook.kind = "method" /\ RewrittenHook.hasBody
    /\ \A i \in DOMAIN node.members :
          IsDeferred(node.members[i]) =>
             \E j \in DOMAIN RewrittenHook.body :
                 RewrittenHook.body[j] = Statement("assign", 0, node.members[i].name, <<>>)
    /\ FindConstructor(node.members) # <<>> =>
          /\ \E j \in DOMAIN Rewritten :
                Rewritten[j].kind = "property" /\ Rewritten[j].name = "constructor_parameters"
          /\ \E j \in DOMAIN RewrittenConstructor.body :
                RewrittenConstructor.body[j].kind = "setParameters"

\* C12: the lifecycle rewrite is all-or-nothing: a class without the
\* Component annotation gets its member list back unchanged; a class with it
\* either raises a fatal diagnostic, and then neither a class nor records are
\* produced, or comes back fully rewritten, never unrewritten or partly so.
C12_AllOrNothing ==
    (node.hasInfo /\ pc \in {"done", "failed"}) =>
       /\ pc = "failed" => (diag # "none" /\ result = NoResult)
       /\ (pc = "done" /\ ~ComponentAnnotated) => Rewritten = node.members
       /\ (pc = "done" /\ ComponentAnnotated) => FullyRewritten

\* The outcomes of a Component class whose member named onStart is a method
\* with a body, or that has no such member: these are all-or-nothing
C12_WhenHookIsMethod ==
    (node.hasInfo /\ pc \in {"done", "failed"}) =>
       /\ pc = "failed" => (diag # "none" /\ result = NoResult)
       /\ (pc = "done" /\ ~ComponentAnnotated) => Rewritten = node.members
       /\ (pc = "done" /\ RewriteApplies) => FullyRewritten
       /\ (pc = "done" /\ ComponentAnnotated /\ ~RewriteApplies) =>
             Rewritten = node.members

-----------------------------------------------------------------------------
(* Properties of the annotation list and the annotation config records.    *)

\* The UIDs of the emitted `decorators` list
DecoratorList == ValueOf(result.records, <<"flamework:decorators">>)[2]

\* The emitted decorators.<uid> records, in their order
ConfigRecords == SelectSeq(result.records, LAMBDA r : Len(r.key) = 2)

RecordsOf(uid) ==
    {i \in DOMAIN ConfigRecords : ConfigRecords[i].key = <<"flamework:decorators", uid>>}

UidOf(annotation) == getUid(annotation.declaration)

\* C13 as stated: the `decorators` list has as many entries as there are
\* decorators.<uid> records, each listed UID has exactly one record, and
\* that record holds the config of the annotation at that list position.
C13_AsStated ==
    Emitted =>
       /\ Len(DecoratorList) = Len(Annotations)
       /\ Len(DecoratorList) = Len(ConfigRecords)
       /\ \A i \in DOMAIN DecoratorList :
             /\ DecoratorList[i] = Str(UidOf(Annotations[i]))
             /\ Cardinality(RecordsOf(UidOf(Annotations[i]))) = 1
             /\ ValueOf(result.records, ConfigKey(Annotations[i]))
                   = decoratorConfig(node.types, Annotations[i])

\* C13 (amended): the `decorators` list has one entry per annotation, in
\* annotation order; there is exactly one decorators.<uid> record per
\* distinct listed UID and none for any other UID, the records standing in
\* the order in which their UIDs first occur in the list; the record of a
\* UID holds the config built for the last annotation with that UID.
C13_Correspondence ==
    Emitted =>
       /\ Len(DecoratorList) = Len(Annotations)
       /\ \A i \in DOMAIN DecoratorList :
             /\ DecoratorList[i] = Str(UidOf(Annotations[i]))
             /\ Cardinality(RecordsOf(UidOf(Annotations[i]))) = 1
             /\ IsLastOfItsUid(i) =>
                   ValueOf(result.records, ConfigKey(Annotations[i]))
                      = decoratorConfig(node.types, Annotations[i])
       /\ Len(ConfigRecords) = Cardinality({UidOf(Annotations[i]) : i \in DOMAIN Annotations})
       /\ \A k \in DOMAIN ConfigRecords :
             \E i \in DOMAIN Annotations :
                /\ ConfigRecords[k].key = ConfigKey(Annotations[i])
                /\ \A l \in DOMAIN ConfigRecords :
                      l < k => \E j \in 1..(i - 1) :
                                  ConfigRecords[l].key = ConfigKey(Annotations[j])

C13_Witness ==
    /\ Emitted
    /\ Len(DecoratorList) = 2
    /\ DecoratorList[1] = DecoratorList[2]
    /\ Len(ConfigRecords) = 1
    /\ decoratorConfig(node.types, Annotations[1]) # decoratorConfig(node.types, Annotations[2])
    /\ ConfigRecords[1].value = decoratorConfig(node.types, Annotations[2])

\* Two annotations with different UIDs: two list entries, two records
C13_WitnessDistinct ==
    /\ Emitted
    /\ Len(DecoratorList) = 2
    /\ DecoratorList[1] # DecoratorList[2]
    /\ Len(ConfigRecords) = 2
    /\ ConfigRecords[1].value = decoratorConfig(node.types, Annotations[1])
    /\ ConfigRecords[2].value = decoratorConfig(node.types, Annotations[2])

=============================================================================
